---- MODULE Spec2Model ----
(***************************************************************************)
(* Model of the identifier codec of anthol-common:                         *)
(*   src/src/actor/id.rs  ActorId  (3-byte capital map + 18 packed bytes)  *)
(*   src/src/id.rs        Id       (16 packed bytes)                       *)
(* Characters are Unicode scalar values, strings are sequences of them,    *)
(* bytes are 0..255, a fixed buffer is a function over 0..N-1 (the source's *)
(* indices), a byte slice is a sequence.                                    *)
(***************************************************************************)
EXTENDS Integers, Sequences, FiniteSets, TLC

(***************************************************************************)
(* Program constants.                                                      *)
(***************************************************************************)
CAPITAL_MAP_SIZE == 3
ActorMAX_LENGTH_IN_BYTES == 18
BYTE_LENGTH == CAPITAL_MAP_SIZE + ActorMAX_LENGTH_IN_BYTES
ActorMAX_LENGTH == 24
ActorMIN_LENGTH == 3
ActorMIN_LENGTH_IN_BYTES == 3
MIN_LENGTH_IN_BYTES_WITH_CAPITAL_MAP == ActorMIN_LENGTH_IN_BYTES + CAPITAL_MAP_SIZE
MAX_LENGTH_IN_BYTES_WITH_CAPITAL_MAP == ActorMAX_LENGTH_IN_BYTES + CAPITAL_MAP_SIZE

IdMAX_LENGTH_IN_BYTES == 16
IdMAX_LENGTH == 21
IdMIN_LENGTH == 3
IdMIN_LENGTH_IN_BYTES == 2

BITS_PER_CHAR == 6
CHAR_MASK == 63
\* one code slot short
Mut_DATA_BITS_CAPACITY == (IdMAX_LENGTH - 1) * BITS_PER_CHAR
DATA_BITS_CAPACITY == IdMAX_LENGTH * BITS_PER_CHAR

\* character literals of the source, as scalar values
Ch_a == 97
Ch_z == 122
Ch_A == 65
Ch_Z == 90
Ch_0 == 48
Ch_9 == 57
Ch_Hyphen == 45
Ch_Underscore == 95
CodeHyphen == 37
CodeUnderscore == 38

ALPHABET_LITERAL_OFFSET == Ch_a - 1
CAPITAL_LITERAL_OFFSET == Ch_A - 1
NUMERIC_LITERAL_OFFSET == Ch_0 - 1 - 26

(***************************************************************************)
(* u8 arithmetic.                                                          *)
(***************************************************************************)
Pow2(n) == 2 ^ n

\* bit k of byte v
Bit(v, k) == (v \div Pow2(k)) % 2

\* a | b on u8
BitOr(a, b) ==
    LET or(k) == IF Bit(a, k) = 1 \/ Bit(b, k) = 1 THEN Pow2(k) ELSE 0
    IN or(0) + or(1) + or(2) + or(3) + or(4) + or(5) + or(6) + or(7)

\* a & b on u8
BitAnd(a, b) ==
    LET and(k) == IF Bit(a, k) = 1 /\ Bit(b, k) = 1 THEN Pow2(k) ELSE 0
    IN and(0) + and(1) + and(2) + and(3) + and(4) + and(5) + and(6) + and(7)

\* v << n on u8 (n < 8): the bits shifted out are lost
Shl(v, n) == (v * Pow2(n)) % 256

\* v >> n on u8
Shr(v, n) == v \div Pow2(n)

(***************************************************************************)
(* str helpers: trim, to_ascii_lowercase, starts_with / ends_with.         *)
(***************************************************************************)
\* char::is_whitespace (Unicode White_Space)
IsWhitespace(c) ==
    c \in ((9..13) \cup {32, 133, 160, 5760} \cup (8192..8202)
            \cup {8232, 8233, 8239, 8287, 12288})

\* str::trim
Trim(s) ==
    LET n == Len(s)
        nonws == {i \in 1..n : ~IsWhitespace(s[i])}
    IN IF nonws = {} THEN <<>>
       ELSE LET lo == CHOOSE i \in nonws : \A j \in nonws : i <= j
                hi == CHOOSE i \in nonws : \A j \in nonws : j <= i
            IN SubSeq(s, lo, hi)

\* no folding
Mut_LowerChar(c) == c

\* char::to_ascii_lowercase
LowerChar(c) == IF c >= Ch_A /\ c <= Ch_Z THEN c + 32 ELSE c

\* str::to_ascii_lowercase
ToAsciiLowercase(s) == [i \in 1..Len(s) |-> LowerChar(s[i])]

StartsWithHyphen(s) == Len(s) > 0 /\ s[1] = Ch_Hyphen
\* the last character is not looked at
Mut_EndsWithHyphen(s) == FALSE
EndsWithHyphen(s) == Len(s) > 0 /\ s[Len(s)] = Ch_Hyphen

(***************************************************************************)
(* Results.                                                                *)
(***************************************************************************)
NoBuf == <<>>
Ok(buf) == [tag |-> "Ok", id |-> buf, err |-> "", ch |-> 0]
Err(e) == [tag |-> "Err", id |-> NoBuf, err |-> e, ch |-> 0]
ErrChar(c) == [tag |-> "Err", id |-> NoBuf, err |-> "InvalidCharacter", ch |-> c]
Panic(msg) == [tag |-> "Panic", id |-> NoBuf, err |-> msg, ch |-> 0]

ActorZero == [i \in 0..(MAX_LENGTH_IN_BYTES_WITH_CAPITAL_MAP - 1) |-> 0]
IdZero == [i \in 0..(IdMAX_LENGTH_IN_BYTES - 1) |-> 0]

(***************************************************************************)
(* ActorId (src/src/actor/id.rs).                                          *)
(***************************************************************************)
IsLower(c) == c >= Ch_a /\ c <= Ch_z
IsUpper(c) == c >= Ch_A /\ c <= Ch_Z
IsDigit(c) == c >= Ch_0 /\ c <= Ch_9

\* the arms of the match on c that yield a value (the last arm returns Err)
ActorCharAccepted(c) ==
    IsLower(c) \/ IsUpper(c) \/ IsDigit(c) \/ c = Ch_Hyphen \/ c = Ch_Underscore

\* the letters counted from 0: 'a' and 'A' get the value 0
Mut_ActorCharValue(c) ==
    IF IsLower(c) THEN (c % 256) - Ch_a
    ELSE IF IsUpper(c) THEN (c % 256) - Ch_A
    ELSE IF IsDigit(c) THEN (c % 256) - NUMERIC_LITERAL_OFFSET
    ELSE IF c = Ch_Hyphen THEN CodeHyphen
    ELSE CodeUnderscore

\* value of the match on c; `c as u8` keeps the low 8 bits
ActorCharValue(c) ==
    IF IsLower(c) THEN (c % 256) - ALPHABET_LITERAL_OFFSET
    ELSE IF IsUpper(c) THEN (c % 256) - CAPITAL_LITERAL_OFFSET
    ELSE IF IsDigit(c) THEN (c % 256) - NUMERIC_LITERAL_OFFSET
    ELSE IF c = Ch_Hyphen THEN CodeHyphen
    ELSE CodeUnderscore

\* a capital letter leaves the capital map untouched
Mut_SetCapitalBit(bytes, position) == bytes

\* the bits of a capital map byte counted from the most significant one
Mut_SetCapitalBitMsb(bytes, position) ==
    LET map_byte_index == position \div 8
        map_bit_offset == 7 - (position % 8)
    IN [bytes EXCEPT ![map_byte_index] = BitOr(@, Shl(1, map_bit_offset))]

\* the 'A'..='Z' arm: set bit position%8 of capital map byte position/8
SetCapitalBit(bytes, position) ==
    LET map_byte_index == position \div 8
        map_bit_offset == position % 8
    IN [bytes EXCEPT ![map_byte_index] = BitOr(@, Shl(1, map_bit_offset))]

\* the high bits that belong in the next byte are dropped
Mut_PackValue(bytes, value, byte_index, bit_offset) ==
    [bytes EXCEPT ![byte_index] = BitOr(@, Shl(value, bit_offset))]

\* OR the 6-bit value into the buffer at byte_index / bit_offset
PackValue(bytes, value, byte_index, bit_offset) ==
    LET low == [bytes EXCEPT ![byte_index] = BitOr(@, Shl(value, bit_offset))]
    IN IF bit_offset > 2
       THEN [low EXCEPT ![byte_index + 1] = BitOr(@, Shr(value, 8 - bit_offset))]
       ELSE low

\* the for loop of ActorId::from_str_core, from character index `position`
RECURSIVE ActorPackLoop(_, _, _, _)
ActorPackLoop(s, position, bit_position, bytes) ==
    IF position >= Len(s) THEN Ok(bytes)
    ELSE LET c == s[position + 1]
         IN IF ~ActorCharAccepted(c) THEN ErrChar(c)
            ELSE LET marked == IF IsUpper(c) THEN SetCapitalBit(bytes, position)
                               ELSE bytes
                     value == ActorCharValue(c)
                     byte_index == bit_position \div 8 + CAPITAL_MAP_SIZE
                     bit_offset == bit_position % 8
                 IN ActorPackLoop(s, position + 1, bit_position + BITS_PER_CHAR,
                                  PackValue(marked, value, byte_index, bit_offset))

\* the upper length check written >= instead of >
Mut_ActorFromStrCore(str) ==
    LET s == Trim(str)
        len == Len(s)
    IN IF len < ActorMIN_LENGTH THEN Err("StringTooShort")
       ELSE IF len >= ActorMAX_LENGTH THEN Err("StringTooLong")
       ELSE ActorPackLoop(s, 0, 0, ActorZero)

ActorFromStrCore(str) ==
    LET s == Trim(str)
        len == Len(s)
    IN IF len < ActorMIN_LENGTH THEN Err("StringTooShort")
       ELSE IF len > ActorMAX_LENGTH THEN Err("StringTooLong")
       ELSE ActorPackLoop(s, 0, 0, ActorZero)

\* ActorId::new, FromStr::from_str, TryFrom<&str>::try_from
ActorNew(id_str) == ActorFromStrCore(id_str)

\* Option<Self>
None == [tag |-> "None", id |-> NoBuf]
Some(buf) == [tag |-> "Some", id |-> buf]

\* the copy one byte short
Mut_CopyInto(slice, n) ==
    [i \in 0..(n - 1) |-> IF i < Len(slice) - 1 THEN slice[i + 1] ELSE 0]

\* copy_nonoverlapping(slice, bytes, len) into a zeroed buffer of n bytes
CopyInto(slice, n) == [i \in 0..(n - 1) |-> IF i < Len(slice) THEN slice[i + 1] ELSE 0]

\* the range starts at MIN_LENGTH_IN_BYTES, the capital map forgotten
Mut_ActorFromSliceCore(slice) ==
    IF Len(slice) >= ActorMIN_LENGTH_IN_BYTES
       /\ Len(slice) <= MAX_LENGTH_IN_BYTES_WITH_CAPITAL_MAP
    THEN Some(CopyInto(slice, MAX_LENGTH_IN_BYTES_WITH_CAPITAL_MAP))
    ELSE None

ActorFromSliceCore(slice) ==
    IF Len(slice) >= MIN_LENGTH_IN_BYTES_WITH_CAPITAL_MAP
       /\ Len(slice) <= MAX_LENGTH_IN_BYTES_WITH_CAPITAL_MAP
    THEN Some(CopyInto(slice, MAX_LENGTH_IN_BYTES_WITH_CAPITAL_MAP))
    ELSE None

\* an out-of-range length yields the default identifier instead of a panic
Mut_ActorFromSlice(slice) ==
    LET r == ActorFromSliceCore(slice)
    IN IF r.tag = "Some" THEN Ok(r.id) ELSE Ok(ActorZero)

ActorFromSlice(slice) ==
    LET r == ActorFromSliceCore(slice)
    IN IF r.tag = "Some" THEN Ok(r.id) ELSE Panic("slice length out of range")

ActorTryFromSlice(slice) ==
    LET r == ActorFromSliceCore(slice)
    IN IF r.tag = "Some" THEN Ok(r.id)
       ELSE IF Len(slice) < MIN_LENGTH_IN_BYTES_WITH_CAPITAL_MAP THEN Err("BytesTooShort")
       ELSE Err("BytesTooLong")

\* &self.0[..i]
Prefix(buf, i) == [k \in 1..i |-> buf[k - 1]]

\* the scan for a zero byte starts at index 0
Mut_ActorAsSlice(buf) ==
    LET zeros == {i \in 0..(MAX_LENGTH_IN_BYTES_WITH_CAPITAL_MAP - 1) : buf[i] = 0}
    IN IF zeros = {} THEN Prefix(buf, MAX_LENGTH_IN_BYTES_WITH_CAPITAL_MAP)
       ELSE Prefix(buf, CHOOSE i \in zeros : \A j \in zeros : i <= j)

ActorAsSlice(buf) ==
    LET zeros == {i \in MIN_LENGTH_IN_BYTES_WITH_CAPITAL_MAP
                        ..(MAX_LENGTH_IN_BYTES_WITH_CAPITAL_MAP - 1) : buf[i] = 0}
    IN IF zeros = {} THEN Prefix(buf, MAX_LENGTH_IN_BYTES_WITH_CAPITAL_MAP)
       ELSE Prefix(buf, CHOOSE i \in zeros : \A j \in zeros : i <= j)

\* the whole array, capital map included
Mut_ActorKey(buf) == [k \in 1..MAX_LENGTH_IN_BYTES_WITH_CAPITAL_MAP |-> buf[k - 1]]

\* &self.0[CAPITAL_MAP_SIZE..]
ActorKey(buf) ==
    [k \in 1..ActorMAX_LENGTH_IN_BYTES |-> buf[k - 1 + CAPITAL_MAP_SIZE]]

\* Ord for [u8]: lexicographic, then by length
SliceCmp(x, y) ==
    LET diff == {k \in 1..Len(x) : k <= Len(y) /\ x[k] # y[k]}
    IN IF diff # {}
       THEN LET k == CHOOSE i \in diff : \A j \in diff : i <= j
            IN IF x[k] < y[k] THEN "Less" ELSE "Greater"
       ELSE IF Len(x) < Len(y) THEN "Less"
       ELSE IF Len(x) > Len(y) THEN "Greater"
       ELSE "Equal"

\* derive(PartialEq) on the whole array
Mut_ActorEq(a, b) == a = b

ActorEq(a, b) == ActorKey(a) = ActorKey(b)
\* the operands the other way round
Mut_ActorCmp(a, b) == SliceCmp(ActorKey(b), ActorKey(a))
ActorCmp(a, b) == SliceCmp(ActorKey(a), ActorKey(b))
\* derive(Hash) on the whole array
Mut_ActorHash(a) == <<MAX_LENGTH_IN_BYTES_WITH_CAPITAL_MAP, Mut_ActorKey(a)>>

\* what Hash for [u8] writes to the hasher: the length, then the bytes
ActorHash(a) == <<Len(ActorKey(a)), ActorKey(a)>>

\* the bits of the next byte are not read
Mut_UnpackValue(buf, byte_index, bit_offset) ==
    BitAnd(Shr(buf[byte_index], bit_offset), CHAR_MASK)

\* the 6-bit value read at byte_index / bit_offset
UnpackValue(buf, byte_index, bit_offset) ==
    IF bit_offset <= 2
    THEN BitAnd(Shr(buf[byte_index], bit_offset), CHAR_MASK)
    ELSE BitAnd(BitOr(Shr(buf[byte_index], bit_offset),
                      Shl(buf[byte_index + 1], 8 - bit_offset)), CHAR_MASK)

Shown(str) == [tag |-> "Ok", str |-> str]
FmtPanic == [tag |-> "Panic", str |-> <<>>]

\* the while loop of Display for ActorId
RECURSIVE ActorFmtLoop(_, _, _, _)
ActorFmtLoop(buf, position, bit_position, result) ==
    IF ~(position < ActorMAX_LENGTH) THEN Shown(result)
    ELSE LET byte_index == bit_position \div 8 + CAPITAL_MAP_SIZE
             bit_offset == bit_position % 8
             value == UnpackValue(buf, byte_index, bit_offset)
             is_capital == Bit(buf[position \div 8], position % 8) = 1
         IN IF value = 0 THEN Shown(result)
            ELSE IF value > CodeUnderscore THEN FmtPanic
            ELSE LET char == IF value <= 26
                             THEN (IF is_capital THEN value + CAPITAL_LITERAL_OFFSET
                                   ELSE value + ALPHABET_LITERAL_OFFSET)
                             ELSE IF value <= 36 THEN value + NUMERIC_LITERAL_OFFSET
                             ELSE IF value = CodeHyphen THEN Ch_Hyphen
                             ELSE Ch_Underscore
                 IN ActorFmtLoop(buf, position + 1, bit_position + BITS_PER_CHAR,
                                 Append(result, char))

\* Display::fmt / to_string for ActorId
ActorDisplay(buf) == ActorFmtLoop(buf, 0, 0, <<>>)

(***************************************************************************)
(* Id (src/src/id.rs).                                                     *)
(***************************************************************************)
\* the match of the actor type, with its '_' arm
Mut_IdCharAccepted(c) == IsLower(c) \/ IsDigit(c) \/ c = Ch_Hyphen \/ c = Ch_Underscore

IdCharAccepted(c) == IsLower(c) \/ IsDigit(c) \/ c = Ch_Hyphen

\* the digits counted from 26: '0' gets the value of 'z'
Mut_IdCharValue(c) ==
    IF IsLower(c) THEN (c % 256) - ALPHABET_LITERAL_OFFSET
    ELSE IF IsDigit(c) THEN (c % 256) - NUMERIC_LITERAL_OFFSET - 1
    ELSE CodeHyphen

IdCharValue(c) ==
    IF IsLower(c) THEN (c % 256) - ALPHABET_LITERAL_OFFSET
    ELSE IF IsDigit(c) THEN (c % 256) - NUMERIC_LITERAL_OFFSET
    ELSE CodeHyphen

\* the for loop of Id::from_str_core
RECURSIVE IdPackLoop(_, _, _, _)
IdPackLoop(s, position, bit_position, bytes) ==
    IF position >= Len(s) THEN Ok(bytes)
    ELSE LET c == s[position + 1]
         IN IF ~IdCharAccepted(c) THEN ErrChar(c)
            ELSE LET value == IdCharValue(c)
                     byte_index == bit_position \div 8
                     bit_offset == bit_position % 8
                 IN IdPackLoop(s, position + 1, bit_position + BITS_PER_CHAR,
                               PackValue(bytes, value, byte_index, bit_offset))

\* the hyphen test made after the character loop
Mut_IdFromStrCore(str) ==
    LET s == ToAsciiLowercase(Trim(str))
        s_len == Len(s)
        packed == IdPackLoop(s, 0, 0, IdZero)
    IN IF s_len > IdMAX_LENGTH THEN Err("StringTooLong")
       ELSE IF s_len < IdMIN_LENGTH THEN Err("StringTooShort")
       ELSE IF packed.tag # "Ok" THEN packed
       ELSE IF StartsWithHyphen(s) \/ EndsWithHyphen(s) THEN Err("InvalidHyphenPosition")
       ELSE packed

IdFromStrCore(str) ==
    LET s == ToAsciiLowercase(Trim(str))
        s_len == Len(s)
    IN IF s_len > IdMAX_LENGTH THEN Err("StringTooLong")
       ELSE IF s_len < IdMIN_LENGTH THEN Err("StringTooShort")
       ELSE IF StartsWithHyphen(s) \/ EndsWithHyphen(s) THEN Err("InvalidHyphenPosition")
       ELSE IdPackLoop(s, 0, 0, IdZero)

\* Id::new, FromStr::from_str, TryFrom<&str>::try_from
IdNew(id_str) == IdFromStrCore(id_str)

\* the range written exclusive (..) instead of inclusive (..=)
Mut_IdFromSliceCore(slice) ==
    IF Len(slice) >= IdMIN_LENGTH_IN_BYTES /\ Len(slice) < IdMAX_LENGTH_IN_BYTES
    THEN Some(CopyInto(slice, IdMAX_LENGTH_IN_BYTES))
    ELSE None

IdFromSliceCore(slice) ==
    IF Len(slice) >= IdMIN_LENGTH_IN_BYTES /\ Len(slice) <= IdMAX_LENGTH_IN_BYTES
    THEN Some(CopyInto(slice, IdMAX_LENGTH_IN_BYTES))
    ELSE None

IdFromSlice(slice) ==
    LET r == IdFromSliceCore(slice)
    IN IF r.tag = "Some" THEN Ok(r.id) ELSE Panic("slice length out of range")

IdTryFromSlice(slice) ==
    LET r == IdFromSliceCore(slice)
    IN IF r.tag = "Some" THEN Ok(r.id)
       ELSE IF Len(slice) < IdMIN_LENGTH_IN_BYTES THEN Err("BytesTooShort")
       ELSE Err("BytesTooLong")

IdAsSlice(buf) ==
    LET zeros == {i \in IdMIN_LENGTH_IN_BYTES..(IdMAX_LENGTH_IN_BYTES - 1) : buf[i] = 0}
    IN IF zeros = {} THEN Prefix(buf, IdMAX_LENGTH_IN_BYTES)
       ELSE Prefix(buf, CHOOSE i \in zeros : \A j \in zeros : i <= j)

\* derive(PartialEq, Eq, Hash, PartialOrd, Ord) on Id([u8; 16])
IdKey(buf) == [k \in 1..IdMAX_LENGTH_IN_BYTES |-> buf[k - 1]]
IdEq(a, b) == IdKey(a) = IdKey(b)
IdCmp(a, b) == SliceCmp(IdKey(a), IdKey(b))
IdHash(a) == <<Len(IdKey(a)), IdKey(a)>>

\* the while loop of Display for Id
RECURSIVE IdFmtLoop(_, _, _)
IdFmtLoop(buf, bit_position, result) ==
    IF ~(bit_position < DATA_BITS_CAPACITY) THEN Shown(result)
    ELSE LET byte_index == bit_position \div 8
             bit_offset == bit_position % 8
             value == UnpackValue(buf, byte_index, bit_offset)
         IN IF value = 0 THEN Shown(result)
            ELSE IF value > CodeHyphen THEN FmtPanic
            ELSE LET char == IF value <= 26 THEN value + ALPHABET_LITERAL_OFFSET
                             ELSE IF value <= 36 THEN value + NUMERIC_LITERAL_OFFSET
                             ELSE Ch_Hyphen
                 IN IdFmtLoop(buf, bit_position + BITS_PER_CHAR, Append(result, char))

\* Display::fmt / to_string for Id
IdDisplay(buf) == IdFmtLoop(buf, 0, <<>>)

(***************************************************************************)
(* Dispatch on the identifier type.                                        *)
(***************************************************************************)
Variants == {"actor", "catalog"}

New(v, s) == IF v = "actor" THEN ActorNew(s) ELSE IdNew(s)
TryFromSlice(v, b) == IF v = "actor" THEN ActorTryFromSlice(b) ELSE IdTryFromSlice(b)
FromSlice(v, b) == IF v = "actor" THEN ActorFromSlice(b) ELSE IdFromSlice(b)
AsSlice(v, buf) == IF v = "actor" THEN ActorAsSlice(buf) ELSE IdAsSlice(buf)
Display(v, buf) == IF v = "actor" THEN ActorDisplay(buf) ELSE IdDisplay(buf)
\* derive(Default): the all-zero array
Default(v) == IF v = "actor" THEN Ok(ActorZero) ELSE Ok(IdZero)
Eq(v, a, b) == IF v = "actor" THEN ActorEq(a, b) ELSE IdEq(a, b)
Cmp(v, a, b) == IF v = "actor" THEN ActorCmp(a, b) ELSE IdCmp(a, b)
Hash(v, a) == IF v = "actor" THEN ActorHash(a) ELSE IdHash(a)
\* Storable::BOUND of ActorId, Id and the wrappers of Id
ActorBOUND == [max_size |-> 21, is_fixed_size |-> FALSE]
IdBOUND == [max_size |-> IdMAX_LENGTH_IN_BYTES, is_fixed_size |-> FALSE]
StoreIdBOUND == [max_size |-> 16, is_fixed_size |-> FALSE]
MarketIdBOUND == [max_size |-> 16, is_fixed_size |-> FALSE]
ItemIdBOUND == [max_size |-> 16, is_fixed_size |-> FALSE]
BOUND(v) == IF v = "actor" THEN ActorBOUND ELSE IdBOUND
\* serialize, is_human_readable: self.to_string().serialize(serializer)
SerializeText(v, buf) == Display(v, buf)
\* visit_str: from_str_core(v)
DeserializeText(v, s) == IF v = "actor" THEN ActorFromStrCore(s) ELSE IdFromStrCore(s)

(***************************************************************************)
(* The indices the get_unchecked calls and the copy are given.             *)
(***************************************************************************)
Access(kind, index, bit_offset) ==
    [kind |-> kind, index |-> index, bit_offset |-> bit_offset]

\* from_str_core: the capital map byte, bytes[byte_index] and bytes[byte_index + 1]
\* of every loop iteration reached
NewAccesses(v, str) ==
    LET s == IF v = "actor" THEN Trim(str) ELSE ToAsciiLowercase(Trim(str))
        entered == IF v = "actor"
                   THEN ~(Len(s) < ActorMIN_LENGTH) /\ ~(Len(s) > ActorMAX_LENGTH)
                   ELSE /\ ~(Len(s) > IdMAX_LENGTH) /\ ~(Len(s) < IdMIN_LENGTH)
                        /\ ~(StartsWithHyphen(s) \/ EndsWithHyphen(s))
        accepted(c) == IF v = "actor" THEN ActorCharAccepted(c) ELSE IdCharAccepted(c)
        bad == {p \in 0..(Len(s) - 1) : ~accepted(s[p + 1])}
        run == {p \in 0..(Len(s) - 1) : \A q \in bad : p < q}
        byte_index(p) == (p * BITS_PER_CHAR) \div 8
                            + (IF v = "actor" THEN CAPITAL_MAP_SIZE ELSE 0)
        bit_offset(p) == (p * BITS_PER_CHAR) % 8
    IN IF ~entered THEN {}
       ELSE {Access("map", p \div 8, p % 8) :
                p \in {q \in run : v = "actor" /\ IsUpper(s[q + 1])}}
            \cup {Access("byte", byte_index(p), bit_offset(p)) : p \in run}
            \cup {Access("next", byte_index(p) + 1, bit_offset(p)) :
                     p \in {q \in run : bit_offset(q) > 2}}

\* Display::fmt: the reads of every loop iteration reached, the last one included
DisplayAccesses(v, buf) ==
    LET slots == IF v = "actor" THEN ActorMAX_LENGTH
                 ELSE DATA_BITS_CAPACITY \div BITS_PER_CHAR
        byte_index(p) == (p * BITS_PER_CHAR) \div 8
                            + (IF v = "actor" THEN CAPITAL_MAP_SIZE ELSE 0)
        bit_offset(p) == (p * BITS_PER_CHAR) % 8
        value(p) == UnpackValue(buf, byte_index(p), bit_offset(p))
        stop == {p \in 0..(slots - 1) :
                    value(p) = 0
                    \/ value(p) > (IF v = "actor" THEN CodeUnderscore ELSE CodeHyphen)}
        run == {p \in 0..(slots - 1) : \A q \in stop : p <= q}
    IN {Access("map", p \div 8, p % 8) :
            p \in {q \in run : v = "actor" /\ value(q) >= 1 /\ value(q) <= 26}}
       \cup {Access("byte", byte_index(p), bit_offset(p)) : p \in run}
       \cup {Access("next", byte_index(p) + 1, bit_offset(p)) :
                p \in {q \in run : ~(bit_offset(q) <= 2)}}

\* as_slice: get_unchecked(i) up to the first zero byte
AsSliceAccesses(v, buf) ==
    LET min == IF v = "actor" THEN MIN_LENGTH_IN_BYTES_WITH_CAPITAL_MAP
               ELSE IdMIN_LENGTH_IN_BYTES
        max == IF v = "actor" THEN MAX_LENGTH_IN_BYTES_WITH_CAPITAL_MAP
               ELSE IdMAX_LENGTH_IN_BYTES
    IN {Access("byte", i, 0) :
           i \in {k \in min..(max - 1) : \A j \in min..(k - 1) : buf[j] # 0}}

\* the copy made whatever the length of the slice
Mut_CopyLen(v, slice) == Len(slice)

\* from_slice_core: the count given to copy_nonoverlapping, 0 when no copy is made
CopyLen(v, slice) ==
    LET r == IF v = "actor" THEN ActorFromSliceCore(slice) ELSE IdFromSliceCore(slice)
    IN IF r.tag = "Some" THEN Len(slice) ELSE 0

(***************************************************************************)
(* Bounds and input sets.                                                  *)
(***************************************************************************)
\* longest run of the fill character in an input text
MaxFill == 25
\* longest run of the fill byte in an input slice
MaxRawFill == 22
\* longest padding on either side of the two characters a compared pair varies
MaxPairPad == 1

Fill(c, k) == [i \in 1..k |-> c]

\* 'a' 'p' 'A' '5' '-' '!' ' '
TailChars == {97, 112, 65, 53, 45, 33, 32}
\* '-' '_' ' ' 'A' '!' and a non-ASCII character
HeadChars == {45, 95, 32, 65, 33, 12450}
Heads == {<<>>} \cup {<<c>> : c \in HeadChars}
Tails == {<<>>} \cup {<<c>> : c \in TailChars} \cup {<<c, d>> : c, d \in TailChars}
\* "abc", "abc-123", "wiggle-stool", and 21 characters with 'a' or 'p' at 5 and 6
TestTexts ==
    { <<97, 98, 99>>,
      <<97, 98, 99, 45, 49, 50, 51>>,
      <<119, 105, 103, 103, 108, 101, 45, 115, 116, 111, 111, 108>> }
    \cup {Fill(Ch_z, 5) \o <<c, d>> \o Fill(Ch_z, 14) : c \in {97, 112}, d \in {97, 112}}
Texts == {h \o Fill(Ch_z, k) \o t : h \in Heads, k \in 0..MaxFill, t \in Tails}
             \cup TestTexts

RawBytes == {0, 1, 38, 255}
RawHeads == {<<>>} \cup {<<x>> : x \in RawBytes}
RawTails == {<<>>} \cup {<<x>> : x \in RawBytes} \cup {<<x, y>> : x, y \in RawBytes}
Raws == {h \o Fill(f, k) \o t : h \in RawHeads, f \in {0, 1}, k \in 0..MaxRawFill,
                                t \in RawTails}

\* texts of a compared pair: two characters of 'a' 'b' 'A' 'B' between runs of 'z'
PairChars == {97, 98, 65, 66}
\* and the pair of test_id_ordering, "Anthol_User" and "Anthol_User-123"
PairTexts == {Fill(Ch_z, i) \o <<c, d>> \o Fill(Ch_z, j) :
                 i \in 0..MaxPairPad, j \in 0..MaxPairPad, c \in PairChars, d \in PairChars}
             \cup { <<65, 110, 116, 104, 111, 108, 95, 85, 115, 101, 114>>,
                    <<65, 110, 116, 104, 111, 108, 95, 85, 115, 101, 114, 45, 49, 50, 51>> }
\* slices of a compared pair: a first byte, two zero bytes, two bytes, zero padding
PairRaws == {<<m, 0, 0, x, y>> \o Fill(0, j) :
                 m \in {0, 1}, x \in {0, 1, 2}, y \in {0, 16}, j \in 1..(MaxPairPad + 1)}

(***************************************************************************)
(* State.  Under Spec one identifier is constructed from an input and then *)
(* taken through as_slice, the two from-bytes constructors and Display.    *)
(* Under SpecPair two identifiers are constructed and compared.            *)
(***************************************************************************)
VARIABLES
    variant,    \* which identifier type the calls are made on
    source,     \* which constructor input was drawn: "text", "bytes", "default"
    ctor,       \* the constructor that was called
    text,       \* the &str argument
    raw,        \* the &[u8] argument
    pc,         \* position of the caller
    id,         \* result of the constructor
    slice,      \* id.as_slice()
    id2,        \* try_from_slice(slice)
    back,       \* from_slice(slice), i.e. Storable::from_bytes(to_bytes(id))
    shown,      \* id.to_string()
    shown2,     \* id2.to_string()
    textB,      \* the &str argument of the second identifier
    rawB,       \* the &[u8] argument of the second identifier
    idB,        \* result of the second constructor
    same,       \* id == idB
    ord,        \* id.cmp(&idB)
    hashes,     \* what id and idB feed to the hasher
    serial,     \* the human-readable serialized form of id
    revived,    \* the identifier deserialized from serial
    calls       \* the calls in progress at the same time, each with its own locals

single == <<slice, id2, back, shown, shown2>>
second == <<textB, rawB, idB, same, ord, hashes>>
inputs == <<variant, source, text, raw>>
serde == <<serial, revived>>
vars == <<variant, source, ctor, text, raw, pc, id, slice, id2, back, shown, shown2,
          textB, rawB, idB, same, ord, hashes, serial, revived, calls>>

Unset == [tag |-> "Unset", id |-> NoBuf, err |-> "", ch |-> 0]
Unshown == [tag |-> "Unset", str |-> <<>>]

Blank ==
    /\ pc = "start"
    /\ ctor = "none"
    /\ id = Unset
    /\ slice = <<>>
    /\ id2 = Unset
    /\ back = Unset
    /\ shown = Unshown
    /\ shown2 = Unshown
    /\ idB = Unset
    /\ same = FALSE
    /\ ord = "unset"
    /\ hashes = <<>>
    /\ serial = Unshown
    /\ revived = Unset

Init ==
    /\ variant \in Variants
    /\ source \in {"text", "bytes", "default"}
    /\ text \in (IF source = "text" THEN Texts ELSE {<<>>})
    /\ raw \in (IF source = "bytes" THEN Raws ELSE {<<>>})
    /\ textB = <<>>
    /\ rawB = <<>>
    /\ calls = <<>>
    /\ Blank

\* ActorId::new / Id::new (from_str, try_from(&str))
DoNew ==
    /\ pc = "start" /\ source = "text"
    /\ id' = New(variant, text)
    /\ ctor' = "new"
    /\ pc' = "built"
    /\ UNCHANGED <<calls, serde, inputs, single, second>>

\* try_from_slice (try_from(&[u8]))
DoTryFromSlice ==
    /\ pc = "start" /\ source = "bytes"
    /\ id' = TryFromSlice(variant, raw)
    /\ ctor' = "try_from_slice"
    /\ pc' = "built"
    /\ UNCHANGED <<calls, serde, inputs, single, second>>

\* from_slice (Storable::from_bytes)
DoFromSlice ==
    /\ pc = "start" /\ source = "bytes"
    /\ id' = FromSlice(variant, raw)
    /\ ctor' = "from_slice"
    /\ pc' = "built"
    /\ UNCHANGED <<calls, serde, inputs, single, second>>

\* Default::default
DoDefault ==
    /\ pc = "start" /\ source = "default"
    /\ id' = Default(variant)
    /\ ctor' = "default"
    /\ pc' = "built"
    /\ UNCHANGED <<calls, serde, inputs, single, second>>

\* as_slice (as_ref, Storable::to_bytes, binary serialize)
DoAsSlice ==
    /\ pc = "built" /\ id.tag = "Ok"
    /\ slice' = AsSlice(variant, id.id)
    /\ pc' = "sliced"
    /\ UNCHANGED <<calls, serde, inputs, ctor, id, id2, back, shown, shown2, second>>

\* try_from_slice on the trimmed bytes (binary deserialize)
DoDecode ==
    /\ pc = "sliced"
    /\ id2' = TryFromSlice(variant, slice)
    /\ pc' = "decoded"
    /\ UNCHANGED <<calls, serde, inputs, ctor, id, slice, back, shown, shown2, second>>

\* Storable::from_bytes on the trimmed bytes
DoFromBytes ==
    /\ pc = "decoded"
    /\ back' = FromSlice(variant, slice)
    /\ pc' = "restored"
    /\ UNCHANGED <<calls, serde, inputs, ctor, id, slice, id2, shown, shown2, second>>

\* to_string of the constructed identifier
DoDisplay ==
    /\ pc = "restored"
    /\ shown' = Display(variant, id.id)
    /\ pc' = "shown"
    /\ UNCHANGED <<calls, serde, inputs, ctor, id, slice, id2, back, shown2, second>>

\* to_string of the identifier decoded from the trimmed bytes
DoDisplay2 ==
    /\ pc = "shown" /\ id2.tag = "Ok"
    /\ shown2' = Display(variant, id2.id)
    /\ pc' = "done"
    /\ UNCHANGED <<calls, serde, inputs, ctor, id, slice, id2, back, shown, second>>

\* Serialize::serialize with a human-readable serializer
DoSerialize ==
    /\ pc = "shown"
    /\ serial' = SerializeText(variant, id.id)
    /\ pc' = "serialized"
    /\ UNCHANGED <<calls, revived, inputs, ctor, id, single, second>>

\* Deserialize::deserialize with a human-readable deserializer
DoDeserialize ==
    /\ pc = "serialized" /\ serial.tag = "Ok"
    /\ revived' = DeserializeText(variant, serial.str)
    /\ pc' = "deserialized"
    /\ UNCHANGED <<calls, serial, inputs, ctor, id, single, second>>

Next ==
    \/ DoNew
    \/ DoTryFromSlice
    \/ DoFromSlice
    \/ DoDefault
    \/ DoAsSlice
    \/ DoDecode
    \/ DoFromBytes
    \/ DoDisplay
    \/ DoDisplay2
    \/ DoSerialize
    \/ DoDeserialize

Spec == Init /\ [][Next]_vars

(***************************************************************************)
(* Two identifiers of one type, compared.                                  *)
(***************************************************************************)
InitPair ==
    /\ variant \in Variants
    /\ source \in {"text", "bytes"}
    /\ text \in (IF source = "text" THEN PairTexts ELSE {<<>>})
    /\ textB \in (IF source = "text" THEN PairTexts ELSE {<<>>})
    /\ raw \in (IF source = "bytes" THEN PairRaws ELSE {<<>>})
    /\ rawB \in (IF source = "bytes" THEN PairRaws ELSE {<<>>})
    /\ calls = <<>>
    /\ Blank

\* new for the second identifier
DoNewB ==
    /\ pc = "built" /\ source = "text"
    /\ idB' = New(variant, textB)
    /\ pc' = "builtB"
    /\ UNCHANGED <<calls, serde, inputs, ctor, id, single, textB, rawB, same, ord, hashes>>

\* try_from_slice for the second identifier
DoTryFromSliceB ==
    /\ pc = "built" /\ source = "bytes"
    /\ idB' = TryFromSlice(variant, rawB)
    /\ pc' = "builtB"
    /\ UNCHANGED <<calls, serde, inputs, ctor, id, single, textB, rawB, same, ord, hashes>>

\* PartialEq::eq
DoEq ==
    /\ pc = "builtB" /\ id.tag = "Ok" /\ idB.tag = "Ok"
    /\ same' = Eq(variant, id.id, idB.id)
    /\ pc' = "compared"
    /\ UNCHANGED <<calls, serde, inputs, ctor, id, single, textB, rawB, idB, ord, hashes>>

\* Ord::cmp (PartialOrd::partial_cmp)
DoCmp ==
    /\ pc = "compared"
    /\ ord' = Cmp(variant, id.id, idB.id)
    /\ pc' = "ordered"
    /\ UNCHANGED <<calls, serde, inputs, ctor, id, single, textB, rawB, idB, same, hashes>>

\* Hash::hash on both
DoHash ==
    /\ pc = "ordered"
    /\ hashes' = <<Hash(variant, id.id), Hash(variant, idB.id)>>
    /\ pc' = "hashed"
    /\ UNCHANGED <<calls, serde, inputs, ctor, id, single, textB, rawB, idB, same, ord>>

NextPair ==
    \/ DoNew
    \/ DoTryFromSlice
    \/ DoNewB
    \/ DoTryFromSliceB
    \/ DoEq
    \/ DoCmp
    \/ DoHash

SpecPair == InitPair /\ [][NextPair]_vars

(***************************************************************************)
(* Calls running at the same time.  A call is the record of its arguments  *)
(* and its local variables; one step is the check before the loop, one     *)
(* iteration of the loop, or the return.                                   *)
(***************************************************************************)
\* number of calls in progress together
NumCalls == 2

ZeroOf(v) == IF v = "actor" THEN ActorZero ELSE IdZero

\* the frame of a call that has not taken a step: arguments, then locals
Call(op, v, arg, self) ==
    [op |-> op, v |-> v, arg |-> arg, self |-> self, stage |-> "begin", steps |-> 0,
     s |-> <<>>, position |-> 0, bit_position |-> 0, bytes |-> ZeroOf(v),
     result |-> <<>>, ret |-> IF op = "display" THEN Unshown ELSE Unset]

Return(l, r) == [l EXCEPT !.stage = "done", !.ret = r]

\* one step of from_str_core
EncodeStep(l) ==
    IF l.stage = "begin"
    THEN LET s == IF l.v = "actor" THEN Trim(l.arg) ELSE ToAsciiLowercase(Trim(l.arg))
             len == Len(s)
         IN IF l.v = "actor"
            THEN IF len < ActorMIN_LENGTH THEN Return(l, Err("StringTooShort"))
                 ELSE IF len > ActorMAX_LENGTH THEN Return(l, Err("StringTooLong"))
                 ELSE [l EXCEPT !.s = s, !.stage = "loop"]
            ELSE IF len > IdMAX_LENGTH THEN Return(l, Err("StringTooLong"))
                 ELSE IF len < IdMIN_LENGTH THEN Return(l, Err("StringTooShort"))
                 ELSE IF StartsWithHyphen(s) \/ EndsWithHyphen(s)
                      THEN Return(l, Err("InvalidHyphenPosition"))
                 ELSE [l EXCEPT !.s = s, !.stage = "loop"]
    ELSE IF l.position >= Len(l.s) THEN Return(l, Ok(l.bytes))
    ELSE LET c == l.s[l.position + 1]
             accepted == IF l.v = "actor" THEN ActorCharAccepted(c) ELSE IdCharAccepted(c)
             marked == IF l.v = "actor" /\ IsUpper(c)
                       THEN SetCapitalBit(l.bytes, l.position) ELSE l.bytes
             value == IF l.v = "actor" THEN ActorCharValue(c) ELSE IdCharValue(c)
             byte_index == l.bit_position \div 8
                             + (IF l.v = "actor" THEN CAPITAL_MAP_SIZE ELSE 0)
             bit_offset == l.bit_position % 8
         IN IF ~accepted THEN Return(l, ErrChar(c))
            ELSE [l EXCEPT !.bytes = PackValue(marked, value, byte_index, bit_offset),
                           !.position = @ + 1,
                           !.bit_position = @ + BITS_PER_CHAR]

\* one step of try_from_slice: the match on the length, then the copy
DecodeStep(l) ==
    LET min == IF l.v = "actor" THEN MIN_LENGTH_IN_BYTES_WITH_CAPITAL_MAP
               ELSE IdMIN_LENGTH_IN_BYTES
        max == IF l.v = "actor" THEN MAX_LENGTH_IN_BYTES_WITH_CAPITAL_MAP
               ELSE IdMAX_LENGTH_IN_BYTES
    IN IF l.stage = "begin"
       THEN IF Len(l.arg) >= min /\ Len(l.arg) <= max THEN [l EXCEPT !.stage = "loop"]
            ELSE IF Len(l.arg) < min THEN Return(l, Err("BytesTooShort"))
            ELSE Return(l, Err("BytesTooLong"))
       ELSE LET bytes == CopyInto(l.arg, max)
            IN Return([l EXCEPT !.bytes = bytes], Ok(bytes))

\* one step of Display::fmt
DisplayStep(l) ==
    IF l.stage = "begin" THEN [l EXCEPT !.stage = "loop"]
    ELSE LET more == IF l.v = "actor" THEN l.position < ActorMAX_LENGTH
                     ELSE l.bit_position < DATA_BITS_CAPACITY
             byte_index == l.bit_position \div 8
                             + (IF l.v = "actor" THEN CAPITAL_MAP_SIZE ELSE 0)
             bit_offset == l.bit_position % 8
             value == UnpackValue(l.self, byte_index, bit_offset)
             is_capital == l.v = "actor"
                           /\ Bit(l.self[l.position \div 8], l.position % 8) = 1
             char == IF value <= 26
                     THEN (IF is_capital THEN value + CAPITAL_LITERAL_OFFSET
                           ELSE value + ALPHABET_LITERAL_OFFSET)
                     ELSE IF value <= 36 THEN value + NUMERIC_LITERAL_OFFSET
                     ELSE IF value = CodeHyphen THEN Ch_Hyphen
                     ELSE Ch_Underscore
         IN IF ~more THEN Return(l, Shown(l.result))
            ELSE IF value = 0 THEN Return(l, Shown(l.result))
            ELSE IF value > (IF l.v = "actor" THEN CodeUnderscore ELSE CodeHyphen)
                 THEN Return(l, FmtPanic)
            ELSE [l EXCEPT !.result = Append(@, char),
                           !.position = @ + 1,
                           !.bit_position = @ + BITS_PER_CHAR]

\* the next step of a call, on its own frame
Step(l) ==
    LET next == IF l.op = "encode" THEN EncodeStep(l)
                ELSE IF l.op = "decode_bytes" THEN DecodeStep(l)
                ELSE DisplayStep(l)
    IN [next EXCEPT !.steps = @ + 1]

\* one static frame for all calls
Mut_Frame(cs, i) == cs[1]

\* the frame call i works on: its own stack frame
Frame(cs, i) == cs[i]

\* arguments of the calls: " Az5", "z_z", "-z"; an accepted slice and a short one
CallTexts == {<<32, 65, 122, 53>>, <<122, 95, 122>>, <<45, 122>>}
CallRaws == {<<0, 0, 0, 1, 1, 255>>, <<1>>}
CallSelves(v) == {New(v, <<65, 122, 53>>).id, TryFromSlice(v, <<0, 0, 0, 1, 1, 255>>).id}
Calls ==
    {Call("encode", v, t, ZeroOf(v)) : v \in Variants, t \in CallTexts}
    \cup {Call("decode_bytes", v, b, ZeroOf(v)) : v \in Variants, b \in CallRaws}
    \cup UNION {{Call("display", v, <<>>, x) : x \in CallSelves(v)} : v \in Variants}

InitConc ==
    /\ variant = "actor"
    /\ source = "calls"
    /\ text = <<>> /\ raw = <<>> /\ textB = <<>> /\ rawB = <<>>
    /\ calls \in [1..NumCalls -> Calls]
    /\ Blank

Others == <<variant, source, ctor, text, raw, pc, id, single, second, serde>>

\* call i takes a step of from_str_core
DoEncodeStep(i) ==
    /\ calls[i].op = "encode" /\ calls[i].stage # "done"
    /\ calls' = [calls EXCEPT ![i] = Step(Frame(calls, i))]
    /\ UNCHANGED Others

\* call i takes a step of try_from_slice
DoDecodeStep(i) ==
    /\ calls[i].op = "decode_bytes" /\ calls[i].stage # "done"
    /\ calls' = [calls EXCEPT ![i] = Step(Frame(calls, i))]
    /\ UNCHANGED Others

\* call i takes a step of Display::fmt
DoDisplayStep(i) ==
    /\ calls[i].op = "display" /\ calls[i].stage # "done"
    /\ calls' = [calls EXCEPT ![i] = Step(Frame(calls, i))]
    /\ UNCHANGED Others

NextConc ==
    \E i \in 1..NumCalls :
        \/ DoEncodeStep(i)
        \/ DoDecodeStep(i)
        \/ DoDisplayStep(i)

SpecConc == InitConc /\ [][NextConc]_vars

(***************************************************************************)
(* StoreName (src/src/store.rs): a String of at most 50 characters.  The   *)
(* call uses text for the argument, id for the result and slice for the    *)
(* stored bytes.                                                           *)
(***************************************************************************)
StoreNameMaxChars == 50
\* longest run of the fill character in a store name
MaxNameFill == 51

\* the UTF-8 encoding of a char
Utf8(c) ==
    IF c < 128 THEN <<c>>
    ELSE IF c < 2048 THEN <<192 + (c \div 64), 128 + (c % 64)>>
    ELSE IF c < 65536
         THEN <<224 + (c \div 4096), 128 + ((c \div 64) % 64), 128 + (c % 64)>>
    ELSE <<240 + (c \div 262144), 128 + ((c \div 4096) % 64),
           128 + ((c \div 64) % 64), 128 + (c % 64)>>

\* str::as_bytes: the encodings of the chars one after the other
RECURSIVE AsBytes(_)
AsBytes(s) == IF s = <<>> THEN <<>> ELSE Utf8(Head(s)) \o AsBytes(Tail(s))

\* the length test made on bytes (s.len()) instead of chars
Mut_StoreNameNew(s) ==
    IF Len(AsBytes(s)) > StoreNameMaxChars THEN Err("TooLong") ELSE Ok(s)

\* StoreName::new, from_str, try_from: from_str_core
StoreNameNew(s) ==
    IF Len(s) > StoreNameMaxChars THEN Err("TooLong") ELSE Ok(s)

\* Storable::to_bytes of StoreName: self.0.to_bytes()
StoreNameToBytes(name) == AsBytes(name)

StoreNameBOUND == [max_size |-> 200, is_fixed_size |-> FALSE]

\* 'a', ' ', U+00E9, U+30A2, U+10348: one to four bytes each
NameChars == {97, 32, 233, 12450, 66376}
Names == {Fill(c, k) \o t : c \in NameChars, k \in 0..MaxNameFill,
                            t \in {<<>>} \cup {<<d>> : d \in NameChars}}

InitName ==
    /\ variant = "store_name"
    /\ source = "text"
    /\ text \in Names
    /\ raw = <<>> /\ textB = <<>> /\ rawB = <<>>
    /\ calls = <<>>
    /\ Blank

\* StoreName::new
DoStoreNameNew ==
    /\ pc = "start"
    /\ id' = StoreNameNew(text)
    /\ ctor' = "new"
    /\ pc' = "built"
    /\ UNCHANGED <<calls, serde, inputs, single, second>>

\* Storable::to_bytes
DoStoreNameToBytes ==
    /\ pc = "built" /\ id.tag = "Ok"
    /\ slice' = StoreNameToBytes(id.id)
    /\ pc' = "sliced"
    /\ UNCHANGED <<calls, serde, inputs, ctor, id, id2, back, shown, shown2, second>>

NextName ==
    \/ DoStoreNameNew
    \/ DoStoreNameToBytes

SpecName == InitName /\ [][NextName]_vars

(***************************************************************************)
(* The properties.  The Claim* operators state what the specification says *)
(* in its own terms; they are not taken from the code.                     *)
(***************************************************************************)
ClaimIsLetter(c) == (c >= 97 /\ c <= 122) \/ (c >= 65 /\ c <= 90)
ClaimIsLowerLetter(c) == c >= 97 /\ c <= 122
ClaimIsDigit(c) == c >= 48 /\ c <= 57
ClaimFoldChar(c) == IF c >= 65 /\ c <= 90 THEN c + 32 ELSE c
ClaimFold(s) == [i \in 1..Len(s) |-> ClaimFoldChar(s[i])]

RECURSIVE ClaimStrip(_)
ClaimStrip(s) ==
    IF s = <<>> THEN s
    ELSE IF IsWhitespace(Head(s)) THEN ClaimStrip(Tail(s))
    ELSE IF IsWhitespace(s[Len(s)]) THEN ClaimStrip(SubSeq(s, 1, Len(s) - 1))
    ELSE s

\* a string the round trip is claimed for: length in range, characters of the alphabet
ClaimInAlphabet(v, s) ==
    IF v = "actor"
    THEN /\ Len(s) >= 3 /\ Len(s) <= 24
         /\ \A i \in 1..Len(s) :
                ClaimIsLetter(s[i]) \/ ClaimIsDigit(s[i]) \/ s[i] = 45 \/ s[i] = 95
    ELSE /\ Len(s) >= 3 /\ Len(s) <= 21
         /\ \A i \in 1..Len(s) : ClaimIsLowerLetter(s[i]) \/ ClaimIsDigit(s[i]) \/ s[i] = 45
         /\ s[1] # 45 /\ s[Len(s)] # 45

AfterSerialized == pc \in {"serialized", "deserialized"}
AfterShown == pc \in {"shown", "done"} \/ AfterSerialized
AfterRestored == pc = "restored" \/ AfterShown
AfterDecoded == pc = "decoded" \/ AfterRestored
AfterSliced == pc = "sliced" \/ AfterDecoded

\* C1: for every string of the variant's alphabet and length range, decoding the
\* trimmed bytes of its identifier and rendering the result gives the string back.
C1_ByteRoundTrip ==
    (source = "text" /\ ClaimInAlphabet(variant, text)) =>
        /\ AfterDecoded => id2.tag = "Ok"
        /\ pc = "done" => shown2 = Shown(text)

\* C3: no operation but from_slice aborts: the constructors from text and from
\* untrusted bytes return Ok or Err, and Display completes on what they return.
C3_OnlyFromSliceAborts ==
    /\ id.tag = "Panic" => ctor = "from_slice"
    /\ id2.tag # "Panic"
    /\ (ctor \in {"new", "try_from_slice"} /\ AfterShown) => shown.tag = "Ok"
    /\ pc = "done" => shown2.tag = "Ok"

C5_IdSliceLength ==
    (variant = "catalog" /\ ctor = "try_from_slice") =>
        /\ id.tag = "Ok" <=> (Len(raw) >= 2 /\ Len(raw) <= 16)
        /\ Len(raw) < 2 => id = Err("BytesTooShort")
        /\ Len(raw) > 16 => id = Err("BytesTooLong")

C5_Witness ==
    /\ variant = "catalog" /\ ctor = "try_from_slice"
    /\ Len(raw) = 16 /\ id.tag = "Ok"

\* C8: every identifier the public constructors return renders to a text of
\* 3..24 (actor) or 3..21 (catalog) characters.
C8_CharCount ==
    (AfterShown /\ shown.tag = "Ok") =>
        /\ Len(shown.str) >= 3
        /\ Len(shown.str) <= (IF variant = "actor" THEN 24 ELSE 21)

\* C9: as_slice of an encoded identifier is a prefix of its buffer, every byte it
\* leaves out is zero, and from_slice of it rebuilds the buffer.
C9_TrimDropsOnlyZeros ==
    (ctor = "new" /\ AfterSliced) =>
        /\ \A k \in 1..Len(slice) : slice[k] = id.id[k - 1]
        /\ \A i \in DOMAIN id.id : i >= Len(slice) => id.id[i] = 0
        /\ AfterRestored => back = Ok(id.id)

\* C10: an accepted string renders as itself without the surrounding whitespace
\* (actor, every letter in its case) or as that lower-cased (catalog), and never
\* longer than 24 or 21 characters.
C10_TextForm ==
    (ctor = "new" /\ AfterShown) =>
        /\ shown.tag = "Ok"
        /\ shown.str = (IF variant = "actor" THEN ClaimStrip(text)
                        ELSE ClaimFold(ClaimStrip(text)))
        /\ Len(shown.str) <= (IF variant = "actor" THEN 24 ELSE 21)

C10_Witness ==
    /\ ctor = "new" /\ AfterShown /\ variant = "actor"
    /\ ClaimStrip(text) # text
    /\ \E i \in 1..Len(text) : text[i] = 65
    /\ Len(shown.str) = 24

\* C11: for an identifier made by new, the human-readable serialized form is its
\* display string, and deserializing that text succeeds with a buffer identical to
\* the identifier's in every byte, the capital map included.
C11_TextRoundTrip ==
    (ctor = "new" /\ AfterSerialized) =>
        /\ serial.tag = "Ok" /\ serial = shown
        /\ pc = "deserialized" =>
              /\ revived.tag = "Ok"
              /\ \A i \in DOMAIN id.id : revived.id[i] = id.id[i]
              /\ DOMAIN revived.id = DOMAIN id.id

C11_Witness ==
    /\ ctor = "new" /\ pc = "deserialized" /\ variant = "actor"
    /\ revived = Ok(id.id)
    /\ id.id[0] # 0
    /\ serial.str # text
    /\ Len(serial.str) = 24

\* every character is one the variant accepts (catalog: letters of either case)
ClaimAllValid(v, s) ==
    \A i \in 1..Len(s) :
        \/ ClaimIsLetter(s[i]) \/ ClaimIsDigit(s[i]) \/ s[i] = 45
        \/ (v = "actor" /\ s[i] = 95)
ClaimEdgeHyphen(s) == Len(s) > 0 /\ (s[1] = 45 \/ s[Len(s)] = 45)
ClaimMaxLength(v) == IF v = "actor" THEN 24 ELSE 21

\* C12: with n the number of characters of the input without its surrounding
\* whitespace, all of them valid and none a hyphen at either end, new succeeds for
\* every n from 3 to 24 (actor) or 21 (catalog), fails with StringTooShort for
\* n < 3 and with StringTooLong for n above the maximum.
C12_LengthBoundaries ==
    LET s == ClaimStrip(text)
        n == Len(s)
    IN (ctor = "new" /\ ClaimAllValid(variant, s) /\ ~ClaimEdgeHyphen(s)) =>
           /\ (n >= 3 /\ n <= ClaimMaxLength(variant)) => id.tag = "Ok"
           /\ n < 3 => id = Err("StringTooShort")
           /\ n > ClaimMaxLength(variant) => id = Err("StringTooLong")

C12_Witness ==
    /\ ctor = "new" /\ variant = "actor"
    /\ Len(ClaimStrip(text)) = 24 /\ Len(text) > 24
    /\ ClaimAllValid(variant, ClaimStrip(text)) /\ ~ClaimEdgeHyphen(ClaimStrip(text))
    /\ id.tag = "Ok"

\* the positions of the characters the variant does not accept
ClaimBadPositions(v, s) == {i \in 1..Len(s) : ~ClaimAllValid(v, <<s[i]>>)}

\* C13: an input of 3..24 (actor) or 3..21 (catalog, no hyphen at either end)
\* characters with at least one character outside the accepted set fails with
\* InvalidCharacter carrying the leftmost such character, ASCII or not.
C13_InvalidCharacter ==
    LET s == ClaimStrip(text)
        bad == ClaimBadPositions(variant, s)
    IN (/\ ctor = "new"
        /\ Len(s) >= 3 /\ Len(s) <= ClaimMaxLength(variant)
        /\ (variant = "catalog" => ~ClaimEdgeHyphen(s))
        /\ bad # {}) =>
           /\ id.tag = "Err" /\ id.err = "InvalidCharacter"
           /\ id.ch = s[CHOOSE i \in bad : \A j \in bad : i <= j]
           /\ id.id = NoBuf

C13_Witness ==
    /\ ctor = "new" /\ variant = "catalog"
    /\ Cardinality(ClaimBadPositions(variant, ClaimStrip(text))) >= 2
    /\ id.err = "InvalidCharacter" /\ id.ch > 127
    /\ text[Len(text)] = 33

ClaimInnerHyphen(s) == \E i \in 2..(Len(s) - 1) : s[i] = 45

\* C14: Id::new of an input of 3..21 characters fails with InvalidHyphenPosition
\* when its first or last character is a hyphen, and accepts a hyphen anywhere
\* between when every character is valid; ActorId::new accepts a valid input
\* that begins or ends with a hyphen.
C14_HyphenRule ==
    LET s == ClaimStrip(text)
        inRange == Len(s) >= 3 /\ Len(s) <= ClaimMaxLength(variant)
    IN (ctor = "new" /\ inRange) =>
           /\ (variant = "catalog" /\ ClaimEdgeHyphen(s)) =>
                  id = Err("InvalidHyphenPosition")
           /\ (/\ variant = "catalog" /\ ClaimInnerHyphen(s)
               /\ ~ClaimEdgeHyphen(s) /\ ClaimAllValid(variant, s)) => id.tag = "Ok"
           /\ (/\ variant = "actor" /\ ClaimEdgeHyphen(s)
               /\ ClaimAllValid(variant, s)) => id.tag = "Ok"

C14_Witness ==
    /\ ctor = "new" /\ variant = "catalog"
    /\ Len(ClaimStrip(text)) = 21
    /\ text[1] # 45 /\ text[Len(text)] = 45
    /\ id = Err("InvalidHyphenPosition")

\* strings that differ from s in the case of ASCII letters only: all lower, all
\* upper, every letter swapped, every second character swapped
ClaimSwapChar(c) ==
    IF c >= 65 /\ c <= 90 THEN c + 32 ELSE IF c >= 97 /\ c <= 122 THEN c - 32 ELSE c
ClaimCaseVariants(s) ==
    { ClaimFold(s),
      [i \in 1..Len(s) |-> IF ClaimIsLowerLetter(s[i]) THEN s[i] - 32 ELSE s[i]],
      [i \in 1..Len(s) |-> ClaimSwapChar(s[i])],
      [i \in 1..Len(s) |-> IF i % 2 = 0 THEN ClaimSwapChar(s[i]) ELSE s[i]] }

\* C15: Id::new gives two inputs that differ only in the case of ASCII letters the
\* same result: the same error, or identifiers whose 16 bytes are identical.
C15_CaseFolding ==
    (variant = "catalog" /\ ctor = "new") =>
        \A t \in ClaimCaseVariants(text) :
            LET other == IdNew(t)
            IN /\ other.tag = id.tag /\ other.err = id.err /\ other.ch = id.ch
               /\ id.tag = "Ok" =>
                      /\ DOMAIN id.id = 0..15
                      /\ \A i \in 0..15 : other.id[i] = id.id[i]

C15_Witness ==
    /\ variant = "catalog" /\ ctor = "new" /\ id.tag = "Ok"
    /\ text[1] = 65 /\ text[Len(text)] = 65
    /\ Cardinality(ClaimCaseVariants(text)) = 4
    /\ IdNew(ClaimFold(text)) = id

\* C18: ActorId declares the bound {21, not fixed}, Id and its wrappers StoreId,
\* MarketId and ItemId {16, not fixed}; the stored form of every identifier is no
\* longer than the declared maximum and no shorter than the shortest slice
\* from_slice takes (6 bytes, 2 for Id), so from_bytes of it does not abort.
C18_StorageBound ==
    /\ ActorBOUND = [max_size |-> 21, is_fixed_size |-> FALSE]
    /\ \A b \in {IdBOUND, StoreIdBOUND, MarketIdBOUND, ItemIdBOUND} :
           b = [max_size |-> 16, is_fixed_size |-> FALSE]
    /\ AfterSliced =>
           /\ Len(slice) <= BOUND(variant).max_size
           /\ Len(slice) >= (IF variant = "actor" THEN 6 ELSE 2)
    /\ AfterRestored => back.tag = "Ok"

C18_Witness ==
    /\ AfterRestored /\ variant = "actor" /\ ctor = "try_from_slice"
    /\ Len(slice) = 21 /\ Len(raw) = 21
    /\ back = Ok(id.id)

\* C19: the trimmed slice of a catalog identifier made from n characters has a
\* length L with 2 <= L <= ceil(6n/8); L does not shrink when a character is
\* appended; n = 21 gives L = 16; "abc", "abc-123" and "wiggle-stool" give 2, 6, 9.
C19_ByteLength ==
    (variant = "catalog" /\ ctor = "new" /\ AfterSliced) =>
        LET n == Len(ClaimStrip(text))
            L == Len(slice)
        IN /\ L >= 2 /\ 8 * L <= 6 * n + 7
           /\ \A c \in {97, 112, 53} :
                 LET longer == IdNew(text \o <<c>>)
                 IN longer.tag = "Ok" => Len(IdAsSlice(longer.id)) >= L
           /\ n = 21 => L = 16
           /\ text = <<97, 98, 99>> => L = 2
           /\ text = <<97, 98, 99, 45, 49, 50, 51>> => L = 6
           /\ text = <<119, 105, 103, 103, 108, 101, 45, 115, 116, 111, 111, 108>> => L = 9

\* C21: from_slice aborts exactly on the slices try_from_slice rejects with
\* BytesTooShort or BytesTooLong and returns the identifier try_from_slice returns
\* on every other slice; Storable::from_bytes does the same.
C21_TrustedBytes ==
    /\ ctor = "from_slice" =>
           LET tried == TryFromSlice(variant, raw)
           IN /\ id.tag = "Panic" <=> tried \in {Err("BytesTooShort"), Err("BytesTooLong")}
              /\ id.tag # "Panic" => id = tried
    /\ ctor = "try_from_slice" =>
           LET trusted == FromSlice(variant, raw)
           IN /\ id.tag = "Err" <=> trusted.tag = "Panic"
              /\ id.tag = "Err" => id.err \in {"BytesTooShort", "BytesTooLong"}
              /\ id.tag = "Ok" => trusted = id
    /\ AfterRestored => (back.tag # "Panic" /\ back = id2)

C21_Witness ==
    /\ ctor = "from_slice" /\ variant = "actor"
    /\ id.tag = "Panic" /\ Len(raw) = 5
    /\ TryFromSlice(variant, raw) = Err("BytesTooShort")

\* C23: new reports the earliest failing check: a length out of range gives
\* StringTooShort or StringTooLong whatever else is wrong with the input, and a
\* catalog input of 3..21 characters with a hyphen at either end gives
\* InvalidHyphenPosition even when it also holds an invalid character.
C23_ErrorPrecedence ==
    LET s == ClaimStrip(text)
    IN ctor = "new" =>
           /\ Len(s) < 3 => id = Err("StringTooShort")
           /\ Len(s) > ClaimMaxLength(variant) => id = Err("StringTooLong")
           /\ (/\ variant = "catalog"
               /\ Len(s) >= 3 /\ Len(s) <= ClaimMaxLength(variant)
               /\ ClaimEdgeHyphen(s)) => id = Err("InvalidHyphenPosition")
           /\ id.err = "InvalidCharacter" =>
                  /\ Len(s) >= 3 /\ Len(s) <= ClaimMaxLength(variant)
                  /\ variant = "catalog" => ~ClaimEdgeHyphen(s)

C23_Witness ==
    /\ ctor = "new" /\ variant = "catalog"
    /\ id = Err("InvalidHyphenPosition")
    /\ ClaimBadPositions(variant, ClaimStrip(text)) # {}
    /\ Len(ClaimStrip(text)) = 21

\* C27: try_from_slice takes a slice exactly when its length is accepted (6..21
\* actor, 2..16 catalog), whatever its bytes are, and the identifier's buffer is
\* the slice followed by zero bytes.
C27_ZeroPadded ==
    ctor = "try_from_slice" =>
        LET size == IF variant = "actor" THEN 21 ELSE 16
            least == IF variant = "actor" THEN 6 ELSE 2
        IN /\ id.tag = "Ok" <=> (Len(raw) >= least /\ Len(raw) <= size)
           /\ id.tag = "Ok" =>
                 /\ DOMAIN id.id = 0..(size - 1)
                 /\ \A i \in 0..(size - 1) :
                       id.id[i] = (IF i < Len(raw) THEN raw[i + 1] ELSE 0)

C27_Witness ==
    /\ ctor = "try_from_slice" /\ variant = "actor" /\ id.tag = "Ok"
    /\ Len(raw) = 7 /\ raw[1] = 255 /\ raw[7] = 255
    /\ id.id[6] = 255 /\ id.id[7] = 0 /\ id.id[20] = 0

\* C28: every unchecked index is inside the buffer: in new for an input that
\* passes the length check, in Display and as_slice for every buffer, the capital
\* map byte index is at most 2, byte_index at most 20 (actor) or 15 (catalog),
\* byte_index + 1 is touched only when bit_offset > 2 and is then at most the last
\* index; and from_slice_core copies no more bytes than the buffer holds.
C28_UncheckedInBounds ==
    LET last == IF variant = "actor" THEN 20 ELSE 15
        made == (IF ctor = "new" THEN NewAccesses(variant, text) ELSE {})
                \cup (IF id.tag = "Ok"
                      THEN DisplayAccesses(variant, id.id) \cup AsSliceAccesses(variant, id.id)
                      ELSE {})
    IN /\ \A a \in made :
             /\ a.index >= 0 /\ a.index <= last
             /\ a.kind = "map" => (variant = "actor" /\ a.index <= 2)
             /\ a.kind = "next" => a.bit_offset > 2
       /\ ctor \in {"try_from_slice", "from_slice"} => CopyLen(variant, raw) <= last + 1

C28_Witness ==
    /\ ctor = "new" /\ variant = "actor" /\ id.tag = "Ok"
    /\ Access("map", 2, 7) \in NewAccesses(variant, text)
    /\ Access("next", 20, 4) \in NewAccesses(variant, text)
    /\ Access("byte", 20, 2) \in DisplayAccesses(variant, id.id)
    /\ Access("byte", 20, 0) \in AsSliceAccesses(variant, id.id)

\* strings near s: its first or its last character replaced, its last character
\* dropped, a character appended ('a' 'z' 'A' 'Z' '0' '9' '-' '_')
ClaimNear(s) ==
    LET cs == {97, 122, 65, 90, 48, 57, 45, 95}
    IN {s \o <<c>> : c \in cs}
       \cup (IF s = <<>> THEN {}
             ELSE {SubSeq(s, 1, Len(s) - 1)}
                  \cup {[s EXCEPT ![1] = c] : c \in cs}
                  \cup {[s EXCEPT ![Len(s)] = c] : c \in cs})

\* C29: two accepted strings of one type whose identifiers are equal have the
\* same form once trimmed and case-folded: strings with different such forms
\* differ in a byte the comparison reads.
C29_Injective ==
    (ctor = "new" /\ pc = "built" /\ id.tag = "Ok") =>
        \A t \in ClaimNear(text) :
            LET other == New(variant, t)
                key == IF variant = "actor" THEN 3..20 ELSE 0..15
            IN (other.tag = "Ok" /\ ClaimFold(ClaimStrip(t)) # ClaimFold(ClaimStrip(text)))
                   => /\ ~Eq(variant, id.id, other.id)
                      /\ \E i \in key : id.id[i] # other.id[i]

C29_Witness ==
    /\ ctor = "new" /\ pc = "built" /\ id.tag = "Ok" /\ variant = "catalog"
    /\ Len(text) = 21
    /\ \E t \in ClaimNear(text) :
          /\ t # text /\ New(variant, t).tag = "Ok"
          /\ Eq(variant, id.id, New(variant, t).id)
    /\ \E t \in ClaimNear(text) :
          /\ New(variant, t).tag = "Ok"
          /\ ~Eq(variant, id.id, New(variant, t).id)

(***************************************************************************)
(* Properties of two identifiers (SpecPair).                               *)
(***************************************************************************)
\* the 6-bit code the specification gives a character, letters case-folded
ClaimCode(c) ==
    IF ClaimIsLetter(c) THEN ClaimFoldChar(c) - 96
    ELSE IF ClaimIsDigit(c) THEN c - 48 + 27
    ELSE IF c = 45 THEN 37
    ELSE 38
ClaimCodes(s) == [i \in 1..Len(s) |-> ClaimCode(s[i])]

\* lexicographic comparison, a proper prefix ordering first
ClaimLexCmp(x, y) ==
    IF \E k \in 1..Len(x) : k <= Len(y) /\ x[k] # y[k]
    THEN LET k == CHOOSE i \in 1..Len(x) :
                      /\ i <= Len(y) /\ x[i] # y[i]
                      /\ \A j \in 1..(i - 1) : x[j] = y[j]
         IN IF x[k] < y[k] THEN "Less" ELSE "Greater"
    ELSE IF Len(x) < Len(y) THEN "Less"
    ELSE IF Len(x) > Len(y) THEN "Greater"
    ELSE "Equal"

\* bit j of the codes laid end to end, six bits each, least significant bit first
ClaimStreamBit(codes, j) ==
    IF j \div 6 < Len(codes) THEN (codes[j \div 6 + 1] \div (2 ^ (j % 6))) % 2 ELSE 0

\* the n bytes that bit stream fills, byte k holding bits 8k..8k+7
ClaimPackedBytes(codes, n) ==
    [k \in 1..n |->
        ClaimStreamBit(codes, 8 * (k - 1)) + 2 * ClaimStreamBit(codes, 8 * (k - 1) + 1)
        + 4 * ClaimStreamBit(codes, 8 * (k - 1) + 2)
        + 8 * ClaimStreamBit(codes, 8 * (k - 1) + 3)
        + 16 * ClaimStreamBit(codes, 8 * (k - 1) + 4)
        + 32 * ClaimStreamBit(codes, 8 * (k - 1) + 5)
        + 64 * ClaimStreamBit(codes, 8 * (k - 1) + 6)
        + 128 * ClaimStreamBit(codes, 8 * (k - 1) + 7)]

ClaimPackedSize == IF variant = "actor" THEN 18 ELSE 16

ClaimProperPrefix(x, y) == Len(x) < Len(y) /\ \A k \in 1..Len(x) : x[k] = y[k]

AfterCompared == pc \in {"compared", "ordered", "hashed"}
AfterOrdered == pc \in {"ordered", "hashed"}

\* C2 as stated: cmp is the lexicographic comparison of the two sequences of
\* case-folded 6-bit codes, the code of character 0 compared first.
C2_OrderOfCodes ==
    (source = "text" /\ AfterOrdered) =>
        ord = ClaimLexCmp(ClaimCodes(text), ClaimCodes(textB))

\* C2 amended: cmp is the lexicographic comparison of the two packed regions byte
\* by byte, byte k holding bits 8k..8k+7 of the case-folded 6-bit codes laid end to
\* end least significant bit first; it does not depend on the letter case, and a
\* string that is a proper prefix of the other (case-folded) orders first.
C2_OrderOfPackedBytes ==
    (source = "text" /\ AfterOrdered) =>
        /\ ord = ClaimLexCmp(ClaimPackedBytes(ClaimCodes(text), ClaimPackedSize),
                             ClaimPackedBytes(ClaimCodes(textB), ClaimPackedSize))
        /\ ClaimProperPrefix(ClaimFold(text), ClaimFold(textB)) => ord = "Less"

C2_Witness ==
    /\ source = "text" /\ AfterOrdered /\ variant = "actor"
    /\ ord = "Less"
    /\ ClaimLexCmp(ClaimCodes(text), ClaimCodes(textB)) = "Greater"
    /\ text # ClaimFold(text)

\* bit j of the packed region of an identifier: bytes 3..20 (actor) or 0..15
ClaimRegionBit(v, buf, j) ==
    (buf[(IF v = "actor" THEN 3 ELSE 0) + j \div 8] \div (2 ^ (j % 8))) % 2

\* C16: the packed region of an identifier made from the characters c_0..c_{n-1},
\* read as a string of bits with the least significant bit of each byte first,
\* holds the code of c_i in bits 6i..6i+5 (across a byte boundary where they fall
\* on one); a-z and A-Z have the codes 1..26, 0-9 27..36, '-' 37 and '_' 38.
C16_BitLayout ==
    (ctor = "new" /\ id.tag = "Ok") =>
        LET s == ClaimStrip(text)
            codes == ClaimCodes(s)
        IN \A i \in 0..(Len(s) - 1) : \A b \in 0..5 :
               ClaimRegionBit(variant, id.id, 6 * i + b) = (codes[i + 1] \div (2 ^ b)) % 2

C16_Witness ==
    /\ ctor = "new" /\ id.tag = "Ok" /\ variant = "actor"
    /\ Len(text) = 24
    /\ text[1] = 95 /\ text[23] = 53 /\ text[24] = 45
    /\ id.id[20] = 37 * 4 + 2

\* C17: after ActorId::new succeeds, bit (i mod 8) of byte (i div 8) of the three
\* header bytes is 1 exactly when i is below the trimmed length and character i is
\* an upper-case letter, for every i in 0..23; and a letter is packed with the
\* code of its lower-case form.
C17_CaseBitmap ==
    (variant = "actor" /\ ctor = "new" /\ id.tag = "Ok") =>
        LET s == ClaimStrip(text)
        IN /\ \A i \in 0..23 :
                 ((id.id[i \div 8] \div (2 ^ (i % 8))) % 2 = 1)
                     <=> (i < Len(s) /\ s[i + 1] >= 65 /\ s[i + 1] <= 90)
           /\ \A i \in 0..(Len(s) - 1) : ClaimIsLetter(s[i + 1]) =>
                 \A b \in 0..5 :
                     ClaimRegionBit(variant, id.id, 6 * i + b)
                         = ((ClaimFoldChar(s[i + 1]) - 96) \div (2 ^ b)) % 2

C17_Witness ==
    /\ variant = "actor" /\ ctor = "new" /\ id.tag = "Ok"
    /\ Len(ClaimStrip(text)) = 24
    /\ id.id[0] = 1 /\ id.id[1] = 0 /\ id.id[2] = 64 + 128

\* C24: when the case-folded form of one valid string is the other's followed by
\* at least one more character, the shorter one's identifier is strictly less,
\* for both types; so "Anthol_User" < "Anthol_User-123".
C24_PrefixOrdering ==
    (source = "text" /\ AfterOrdered) =>
        LET s == ClaimFold(ClaimStrip(text))
            u == ClaimFold(ClaimStrip(textB))
        IN /\ ClaimProperPrefix(s, u) => (ord = "Less" /\ ~same)
           /\ ClaimProperPrefix(u, s) => (ord = "Greater" /\ ~same)

C24_Witness ==
    /\ source = "text" /\ AfterOrdered /\ variant = "actor"
    /\ Len(text) = 11 /\ Len(textB) = 15
    /\ ClaimProperPrefix(text, textB)
    /\ ord = "Less"

\* the value of code slot i of the packed region
ClaimSlot(v, buf, i) ==
    ClaimRegionBit(v, buf, 6 * i) + 2 * ClaimRegionBit(v, buf, 6 * i + 1)
    + 4 * ClaimRegionBit(v, buf, 6 * i + 2) + 8 * ClaimRegionBit(v, buf, 6 * i + 3)
    + 16 * ClaimRegionBit(v, buf, 6 * i + 4) + 32 * ClaimRegionBit(v, buf, 6 * i + 5)

\* C25: in an identifier made by new from n characters, each of the first n code
\* slots holds a value in 1..38 (1..37 for catalog); every later slot, the two
\* spare bits of the catalog region and every capital map bit from n on are zero.
C25_Terminator ==
    (ctor = "new" /\ id.tag = "Ok") =>
        LET n == Len(ClaimStrip(text))
            slots == IF variant = "actor" THEN 24 ELSE 21
        IN /\ \A i \in 0..(n - 1) :
                 /\ ClaimSlot(variant, id.id, i) >= 1
                 /\ ClaimSlot(variant, id.id, i) <= (IF variant = "actor" THEN 38 ELSE 37)
           /\ \A i \in n..(slots - 1) : ClaimSlot(variant, id.id, i) = 0
           /\ variant = "catalog" =>
                 (ClaimRegionBit(variant, id.id, 126) = 0
                     /\ ClaimRegionBit(variant, id.id, 127) = 0)
           /\ variant = "actor" =>
                 \A i \in n..23 : (id.id[i \div 8] \div (2 ^ (i % 8))) % 2 = 0

C25_Witness ==
    /\ ctor = "new" /\ id.tag = "Ok" /\ variant = "actor"
    /\ Len(ClaimStrip(text)) = 23
    /\ ClaimSlot(variant, id.id, 22) = 1 /\ ClaimSlot(variant, id.id, 23) = 0
    /\ id.id[2] = 64

\* the buffer with every packed bit after code slot k set to fill
ClaimAfterSlot(v, buf, k, fill) ==
    LET off == IF v = "actor" THEN 3 ELSE 0
        bit(p) == IF p < 6 * (k + 1) THEN ClaimRegionBit(v, buf, p) ELSE fill
    IN [j \in DOMAIN buf |->
           IF j < off THEN buf[j]
           ELSE bit(8 * (j - off)) + 2 * bit(8 * (j - off) + 1)
                + 4 * bit(8 * (j - off) + 2) + 8 * bit(8 * (j - off) + 3)
                + 16 * bit(8 * (j - off) + 4) + 32 * bit(8 * (j - off) + 5)
                + 64 * bit(8 * (j - off) + 6) + 128 * bit(8 * (j - off) + 7)]

\* C26: rendering a buffer whose codes before the first zero code are valid ends
\* after at most 24 (21) code slots with one character per slot before the first
\* zero slot, all 24 (21) when none is zero, and the text is the same whatever
\* the packed bits after the first zero code are.
C26_DecodeLoop ==
    (AfterShown /\ id.tag = "Ok") =>
        LET slots == IF variant = "actor" THEN 24 ELSE 21
            top == IF variant = "actor" THEN 38 ELSE 37
            zero == {i \in 0..(slots - 1) : ClaimSlot(variant, id.id, i) = 0}
            k == IF zero = {} THEN slots ELSE CHOOSE i \in zero : \A j \in zero : i <= j
        IN (\A i \in 0..(k - 1) : ClaimSlot(variant, id.id, i) <= top) =>
               /\ shown.tag = "Ok"
               /\ Len(shown.str) = k
               /\ \A i \in 0..(k - 1) :
                     ClaimCode(shown.str[i + 1]) = ClaimSlot(variant, id.id, i)
               /\ \A fill \in {0, 1} :
                     Display(variant, ClaimAfterSlot(variant, id.id, k, fill)) = shown

C26_Witness ==
    /\ AfterShown /\ variant = "catalog" /\ ctor = "try_from_slice"
    /\ shown.tag = "Ok" /\ Len(shown.str) = 2
    /\ ClaimSlot(variant, id.id, 2) = 0
    /\ \E i \in 3..20 : ClaimSlot(variant, id.id, i) > 37

\* C6: two valid actor strings that differ only in letter case give equal
\* identifiers, and two whose case-folded forms differ give unequal ones.
C6_CaseInsensitiveEq ==
    (variant = "actor" /\ source = "text" /\ AfterCompared) =>
        (same <=> ClaimFold(text) = ClaimFold(textB))

C6_Witness ==
    /\ variant = "actor" /\ source = "text" /\ AfterCompared
    /\ same /\ text # textB

\* the identifier with its three capital map bytes replaced by m
ClaimWithMap(buf, m) == [i \in DOMAIN buf |-> IF i < 3 THEN m ELSE buf[i]]

\* C7: for ActorId, ==, cmp and hash read bytes 3..20 only and agree: a == b iff
\* cmp is Equal iff those bytes are identical, equal identifiers feed the hasher
\* the same bytes, and replacing the capital map changes none of the three.
C7_KeyOnlyComparisons ==
    (variant = "actor" /\ pc = "hashed") =>
        /\ same <=> ord = "Equal"
        /\ same <=> \A i \in 3..20 : id.id[i] = idB.id[i]
        /\ same => hashes[1] = hashes[2]
        /\ \A m \in {0, 1, 255} :
              /\ ActorEq(ClaimWithMap(id.id, m), idB.id) = same
              /\ ActorCmp(ClaimWithMap(id.id, m), idB.id) = ord
              /\ ActorHash(ClaimWithMap(id.id, m)) = hashes[1]

C7_Witness ==
    /\ variant = "actor" /\ pc = "hashed" /\ source = "bytes"
    /\ same
    /\ \E i \in 0..2 : id.id[i] # idB.id[i]

\* C30: two identifiers of one type, from new or from try_from_slice, that both
\* render without abort are equal exactly when their rendered texts are the
\* same up to the case of ASCII letters.
C30_EqualityMatchesDisplay ==
    (AfterCompared /\ Display(variant, id.id).tag = "Ok"
                   /\ Display(variant, idB.id).tag = "Ok") =>
        (same <=> ClaimFold(Display(variant, id.id).str)
                      = ClaimFold(Display(variant, idB.id).str))

(***************************************************************************)
(* Properties of calls running together (SpecConc).                        *)
(***************************************************************************)
\* the frame of a call after k steps taken with nothing else running
RECURSIVE ClaimAlone(_, _)
ClaimAlone(l, k) == IF k = 0 THEN l ELSE ClaimAlone(Step(l), k - 1)

\* C20: in every interleaving of the steps of concurrent encode, decode_bytes and
\* display calls, the frame of each call is at every moment what it is after the
\* same number of steps taken alone, and the call returns what the operation
\* returns on the same input run in one piece.
C20_Purity ==
    \A i \in DOMAIN calls :
        LET l == calls[i]
        IN /\ l = ClaimAlone(Call(l.op, l.v, l.arg, l.self), l.steps)
           /\ l.stage = "done" =>
                 l.ret = (IF l.op = "encode" THEN New(l.v, l.arg)
                          ELSE IF l.op = "decode_bytes" THEN TryFromSlice(l.v, l.arg)
                          ELSE Display(l.v, l.self))

C20_Witness ==
    /\ calls # <<>>
    /\ calls[1].op = "encode" /\ calls[1].stage = "done" /\ calls[1].ret.tag = "Ok"
    /\ calls[2].op = "display" /\ calls[2].stage = "loop" /\ Len(calls[2].result) = 2
    /\ calls[1].bytes # calls[2].self

(***************************************************************************)
(* Properties of store names (SpecName).                                   *)
(***************************************************************************)
\* C22: StoreName::new accepts a string exactly when it has at most 50
\* characters, and the stored bytes of an accepted name are at most 200, four per
\* character, the max_size its bound declares.
C22_StoreNameBound ==
    /\ StoreNameBOUND = [max_size |-> 200, is_fixed_size |-> FALSE]
    /\ (variant = "store_name" /\ ctor = "new") =>
           /\ id.tag = "Ok" <=> Len(text) <= 50
           /\ id.tag # "Ok" => id = Err("TooLong")
           /\ pc = "sliced" =>
                 /\ Len(slice) <= 4 * Len(text)
                 /\ Len(slice) <= StoreNameBOUND.max_size

C22_Witness ==
    /\ variant = "store_name" /\ pc = "sliced"
    /\ Len(text) = 50 /\ \A i \in 1..50 : text[i] > 65535
    /\ Len(slice) = 200

====
